---- MODULE Spec2Model ----
(***************************************************************************)
(* Commemorative ticket upsell module.                                     *)
(*                                                                         *)
(* The widget is the Vue component vue/CommemorativeTicketModule.vue: its  *)
(* reactive `state` object, its props, its handlers and the template       *)
(* conditions (v-if / :disabled) under which each handler can be invoked.  *)
(* The submission endpoint is app/api/commemorative/add-to-order/route.ts, *)
(* the pricing helpers are lib/api/pricing.ts.                             *)
(*                                                                         *)
(* JavaScript values: `null` is Null, `undefined` is Undefined, an         *)
(* optional object is a sequence of length 0 (absent) or 1 (present).      *)
(***************************************************************************)
EXTENDS Integers, Sequences, FiniteSets, TLC

VARIABLES
  seats,          \* props.seats
  addressOnFile,  \* props.addressOnFile (<<>> is null)
  state,          \* the reactive state object of the widget
  fieldState,     \* per-field validation state of the custom address form
  pending,        \* fetch() calls of handleAddToOrder that have not settled
  emitted,        \* events emitted to the host page, by name
  lastResult,     \* payload of the 'add-to-order' event the last operation emitted (<<>> if none)
  contributions,  \* amounts of the contributions the ticketing backend holds for the session
  submits,        \* number of handleAddToOrder calls so far
  edits,          \* number of form edits so far
  pre,            \* state right before the last handleAddToOrder (<<>> once another operation ran)
  lastOp,         \* the last operation, if it was a submission step, edit or remove (else "other")
  pin,            \* inputs of the pricing functions
  pout,           \* result of verifyPrice on pin
  sreq,           \* pair of request bodies handed to POST
  sres,           \* the POST handler's outcome for each of them
  vin,            \* request body handed to validateAddToOrderRequest
  vout,           \* what validateAddToOrderRequest did with vin
  nin,            \* arguments handed to buildContributionNotes
  nout,           \* the notes it returned for nin
  win,            \* input of the fulfilment payload functions
  wout,           \* what they returned for win
  addressAutocomplete,      \* whether the host page passed an autocomplete provider
  autocompleteSuggestions,  \* the suggestions held by the component
  showAutocomplete,         \* whether the dropdown is open
  autocompleteTimeout,      \* the query of the debounce timer that is armed (<<>>: none)
  lookups                   \* the queries of the provider calls that have not settled

vars == <<seats, addressOnFile, state, fieldState, pending, emitted, lastResult,
          contributions, submits, edits, pre, lastOp,
          pin, pout, sreq, sres, vin, vout, nin, nout, win, wout,
          addressAutocomplete, autocompleteSuggestions, showAutocomplete,
          autocompleteTimeout, lookups>>

widgetVars == <<seats, addressOnFile, state, fieldState, pending, emitted, lastResult,
                contributions, submits, edits, pre, lastOp>>

autocompleteVars == <<addressAutocomplete, autocompleteSuggestions, showAutocomplete,
                      autocompleteTimeout, lookups>>

-----------------------------------------------------------------------------
(* Bounds of the model *)

MaxSubmits == 2
MaxEdits == 3

-----------------------------------------------------------------------------
(* JavaScript values *)

Null == "<null>"
Undefined == "<undefined>"

\* JavaScript truthiness of a string-or-null-or-undefined value
Falsy(v) == v \in {"", Null, Undefined}

\* a || b
OrElse(a, b) == IF Falsy(a) THEN b ELSE a

-----------------------------------------------------------------------------
(* Configuration *)

TICKET_PRICE == 20
FUND_ID == 1001

DesignIds == {"design-a", "design-b"}

SessionKey == "demo-session-12345"

Seat13 == [section |-> "Orchestra", row |-> "B", seatNumber |-> "13", seatId |-> 100001]
Seat14 == [section |-> "Orchestra", row |-> "B", seatNumber |-> "14", seatId |-> 100002]

\* the seat lists the host page may pass
SeatLists == {<<Seat13, Seat14>>, <<Seat13>>}

OnFile == [name |-> "Alex Johnson", street1 |-> "456 Elm St", street2 |-> "Suite 200",
           city |-> "Chicago", state |-> "IL", postalCode |-> "60601", country |-> "US"]

AddressFields == {"name", "street1", "street2", "city", "state", "postalCode"}

\* what the user may type into a field of the custom address form
FieldInput(field) ==
  CASE field = "name" -> {"", "Pat Doe"}
    [] field = "street1" -> {"", "9 Elm St"}
    [] field = "street2" -> {"", "Unit 7"}
    [] field = "city" -> {"", "Evanston"}
    [] field = "state" -> {"", "IL"}
    [] field = "postalCode" -> {"", "60201"}

Messages == {"", "Happy Birthday!"}

EmptyAddress == [name |-> "", street1 |-> "", street2 |-> "", city |-> "",
                 state |-> "", postalCode |-> ""]

FieldNames == {"name", "street1", "city", "state", "postalCode"}
UntouchedFields == [f \in FieldNames |-> [touched |-> FALSE, valid |-> Null, error |-> ""]]

-----------------------------------------------------------------------------
(* Seat bookkeeping *)

Key(seat) == seat.row \o "-" \o seat.seatNumber

\* state.seatSelections[key]; a key that is not in the object reads as undefined
Lookup(sel, key) == IF key \in DOMAIN sel THEN sel[key] ELSE Undefined

\* a watcher that builds the selections of the new list from scratch
WatchSeats_Rebuilds(sel, list) ==
  LET new == {Key(list[i]) : i \in 1..Len(list)}
  IN [k \in new |-> ""]

\* the watcher on props.seats: every seat without an entry gets ''
WatchSeats(sel, list) ==
  LET new == {Key(list[i]) : i \in 1..Len(list)}
  IN [k \in (DOMAIN sel) \cup new |-> IF k \in DOMAIN sel THEN sel[k] ELSE ""]

IsSelected(sel, seat) == ~Falsy(Lookup(sel, Key(seat)))

selectedSeats == SelectSeq(seats, LAMBDA seat : IsSelected(state.seatSelections, seat))

\* a total that counts every non-empty entry, listed seat or not
totalPrice_AllEntries ==
  Cardinality({k \in DOMAIN state.seatSelections : ~Falsy(state.seatSelections[k])}) * TICKET_PRICE

totalPrice == Len(selectedSeats) * TICKET_PRICE

canContinue == Len(selectedSeats) > 0

-----------------------------------------------------------------------------
(* Pricing: lib/api/pricing.ts *)

calculateTotal(quantity) == quantity * TICKET_PRICE

\* a verifyPrice that echoes the client's figure as the total
verifyPrice_TrustsClient(clientTotal, quantity) ==
  [total |-> clientTotal, mismatch |-> clientTotal # calculateTotal(quantity)]

\* clientTotal is whatever JSON value the client sent; !== is strict inequality
verifyPrice(clientTotal, quantity) ==
  LET serverTotal == calculateTotal(quantity)
      mismatch == clientTotal # serverTotal
  IN [total |-> serverTotal, mismatch |-> mismatch]

-----------------------------------------------------------------------------
(* Submission endpoint: app/api/commemorative/add-to-order/route.ts *)

RECURSIVE Join(_, _)
\* Array.prototype.join
Join(parts, sep) ==
  IF Len(parts) = 0 THEN ""
  ELSE IF Len(parts) = 1 THEN parts[1]
  ELSE parts[1] \o sep \o Join(Tail(parts), sep)

\* Array.prototype.filter(Boolean) on an array of strings and nulls
FilterTruthy(parts) == SelectSeq(parts, LAMBDA x : ~Falsy(x))

RECURSIVE SelectionErrors_ZeroBased(_, _)
\* selection errors labelled with the 0-based array index
SelectionErrors_ZeroBased(selections, index) ==
  IF index > Len(selections) THEN << >>
  ELSE LET selection == selections[index]
           e1 == IF Falsy(selection.designId)
                 THEN <<"Selection " \o ToString(index - 1) \o ": designId is required">>
                 ELSE << >>
           e2 == IF Falsy(selection.row) \/ Falsy(selection.seatNumber)
                 THEN <<"Selection " \o ToString(index - 1) \o ": row and seatNumber are required">>
                 ELSE << >>
       IN e1 \o e2 \o SelectionErrors_ZeroBased(selections, index + 1)

RECURSIVE SelectionErrors(_, _)
\* the forEach over body.selections of validateRequest, from position index on
SelectionErrors(selections, index) ==
  IF index > Len(selections) THEN << >>
  ELSE LET selection == selections[index]
           e1 == IF Falsy(selection.designId)
                 THEN <<"Selection " \o ToString(index) \o ": designId is required">>
                 ELSE << >>
           e2 == IF Falsy(selection.row) \/ Falsy(selection.seatNumber)
                 THEN <<"Selection " \o ToString(index) \o ": row and seatNumber are required">>
                 ELSE << >>
       IN e1 \o e2 \o SelectionErrors(selections, index + 1)

AddressErrors(address) ==
  (IF Falsy(address.name) THEN <<"shippingAddress.name is required">> ELSE << >>)
  \o (IF Falsy(address.street1) THEN <<"shippingAddress.street1 is required">> ELSE << >>)
  \o (IF Falsy(address.city) THEN <<"shippingAddress.city is required">> ELSE << >>)
  \o (IF Falsy(address.state) THEN <<"shippingAddress.state is required">> ELSE << >>)
  \o (IF Falsy(address.postalCode) THEN <<"shippingAddress.postalCode is required">> ELSE << >>)

validateRequest(body) ==
  (IF Falsy(body.sessionKey) THEN <<"sessionKey is required">> ELSE << >>)
  \o (IF Len(body.selections) = 0 THEN <<"At least one selection is required">> ELSE << >>)
  \o SelectionErrors(body.selections, 1)
  \o (IF Len(body.shippingAddress) = 0
      THEN <<"shippingAddress is required">>
      ELSE AddressErrors(body.shippingAddress[1]))
  \o (IF ~Falsy(body.specialMessage) /\ Len(body.specialMessage) > 80
      THEN <<"specialMessage must be 80 characters or less">>
      ELSE << >>)

formatDesignName(designId) ==
  CASE designId = "design-a" -> "Design A (Season)"
    [] designId = "design-b" -> "Design B (Classic)"
    [] designId = "design-c" -> "Design C (Limited Edition)"
    [] OTHER -> designId

formatAddress(address) ==
  Join(FilterTruthy(<<address.name, address.street1, address.street2,
                      address.city \o ", " \o address.state \o " " \o address.postalCode>>),
       ", ")

\* String.prototype.substring(0, n)
Substring0(str, n) == IF Len(str) <= n THEN str ELSE SubSeq(str, 1, n)

NOTES_LIMIT == 500

RouteNotes(body) ==
  LET designSummary ==
        Join([i \in 1..Len(body.selections) |->
                "Row " \o body.selections[i].row \o " Seat " \o body.selections[i].seatNumber
                \o ": " \o formatDesignName(body.selections[i].designId)], "; ")
      notes == Join(FilterTruthy(<<"Commemorative Ticket",
                                   designSummary,
                                   IF ~Falsy(body.specialMessage)
                                   THEN "Message: \"" \o body.specialMessage \o "\""
                                   ELSE Null,
                                   "Ship to: " \o formatAddress(body.shippingAddress[1])>>),
                    " | ")
  IN Substring0(notes, NOTES_LIMIT)

\* lib/config/orgConfig.ts
DESIGN_OPTIONS ==
  << [id |-> "design-a", name |-> "Design A", description |-> "Season design"],
     [id |-> "design-b", name |-> "Design B", description |-> "Classic"],
     [id |-> "design-c", name |-> "Design C", description |-> "Limited edition"] >>

\* formatDesignName of lib/api/contributionNotes.ts, which reads the configuration
formatDesignNameFromOptions(designId) ==
  LET found == SelectSeq(DESIGN_OPTIONS, LAMBDA d : d.id = designId)
  IN IF Len(found) > 0
     THEN found[1].name \o " (" \o found[1].description \o ")"
     ELSE designId

\* lib/api/contributionNotes.ts, were the notes returned whole
buildContributionNotes_Untruncated(selections, shippingAddress, specialMessage, maxLength) ==
  LET designSummary ==
        Join([i \in 1..Len(selections) |->
                "Row " \o selections[i].row \o " Seat " \o selections[i].seatNumber
                \o ": " \o formatDesignNameFromOptions(selections[i].designId)], "; ")
  IN Join(FilterTruthy(<<"Commemorative Ticket",
                         designSummary,
                         IF ~Falsy(specialMessage)
                         THEN "Message: \"" \o specialMessage \o "\""
                         ELSE Null,
                         "Ship to: " \o formatAddress(shippingAddress)>>),
          " | ")

\* lib/api/contributionNotes.ts; maxLength is 500 when the caller passes none
buildContributionNotes(selections, shippingAddress, specialMessage, maxLength) ==
  LET designSummary ==
        Join([i \in 1..Len(selections) |->
                "Row " \o selections[i].row \o " Seat " \o selections[i].seatNumber
                \o ": " \o formatDesignNameFromOptions(selections[i].designId)], "; ")
      notes == Join(FilterTruthy(<<"Commemorative Ticket",
                                   designSummary,
                                   IF ~Falsy(specialMessage)
                                   THEN "Message: \"" \o specialMessage \o "\""
                                   ELSE Null,
                                   "Ship to: " \o formatAddress(shippingAddress)>>),
                    " | ")
  IN Substring0(notes, maxLength)

\* What the ticketing backend does with one addContribution call:
\* it accepts it, reports a failure (with or without a message), or the call throws.
BackendOutcomes ==
  { [kind |-> "ok", error |-> Undefined],
    [kind |-> "fail", error |-> "Failed to add contribution: 500"],
    [kind |-> "fail", error |-> Undefined],
    [kind |-> "throw", error |-> "fetch failed"] }

NoLineItem == << >>

\* an endpoint that charges what the client declared
calculatedTotal_FromClient(body) == body.totalPrice

\* const quantity = body.selections.length; const calculatedTotal = quantity * TICKET_PRICE
calculatedTotal(body) == Len(body.selections) * TICKET_PRICE

\* tessituraClient.addContribution(body.sessionKey, {fundId, amount, notes})
addContributionCall(body) ==
  [service |-> "tessitura", method |-> "addContribution",
   sessionKey |-> body.sessionKey, fundId |-> FUND_ID,
   amount |-> calculatedTotal(body), notes |-> RouteNotes(body)]

\* a handler that also sends the order to the fulfilment partner
OutboundCalls_WithWWL(body) ==
  <<addContributionCall(body),
    [service |-> "wwl", method |-> "submitOrder", sessionKey |-> body.sessionKey]>>

\* the calls to external services POST makes for a request that passed validation
OutboundCalls(body) == <<addContributionCall(body)>>

\* a handler that treats a validation failure as a server error
ValidationFailed_ServerError(validationErrors) ==
  [status |-> 500, success |-> FALSE, error |-> "Validation failed",
   details |-> << >>, lineItem |-> NoLineItem, calls |-> << >>,
   reported |-> << >>]

\* the early return of POST when validateRequest reported errors
ValidationFailed(validationErrors) ==
  [status |-> 400, success |-> FALSE, error |-> "Validation failed",
   details |-> validationErrors, lineItem |-> NoLineItem, calls |-> << >>,
   reported |-> << >>]

\* a handler that goes on as if the contribution had been added
ContributionFailed_Ignored(body, backend) ==
  [status |-> 200, success |-> TRUE, error |-> Undefined, details |-> << >>,
   lineItem |-> <<[description |-> "Commemorative Tickets x" \o ToString(Len(body.selections)),
                   quantity |-> Len(body.selections), total |-> calculatedTotal(body)]>>,
   calls |-> OutboundCalls(body), reported |-> <<backend.kind>>]

\* the early return of POST when addContribution reported a failure
ContributionFailed(body, backend) ==
  [status |-> 500, success |-> FALSE,
   error |-> OrElse(backend.error, "Failed to add contribution"),
   details |-> << >>, lineItem |-> NoLineItem, calls |-> OutboundCalls(body),
   reported |-> <<backend.kind>>]

\* POST: the response (HTTP status and JSON body), the calls made to external
\* services, and what addContribution reported (<<>>: it was not called)
POST(body, backend) ==
  LET validationErrors == validateRequest(body)
      quantity == Len(body.selections)
  IN IF Len(validationErrors) > 0
     THEN ValidationFailed(validationErrors)
     ELSE IF backend.kind = "throw"
     THEN [status |-> 500, success |-> FALSE, error |-> "Failed to add commemorative tickets",
           details |-> backend.error, lineItem |-> NoLineItem, calls |-> OutboundCalls(body),
           reported |-> <<backend.kind>>]
     ELSE IF backend.kind # "ok"
     THEN ContributionFailed(body, backend)
     ELSE [status |-> 200, success |-> TRUE, error |-> Undefined,
           details |-> << >>,
           lineItem |-> <<[description |-> "Commemorative Tickets x" \o ToString(quantity),
                           quantity |-> quantity, total |-> calculatedTotal(body)]>>,
           calls |-> OutboundCalls(body), reported |-> <<backend.kind>>]

-----------------------------------------------------------------------------
(* The widget: vue/CommemorativeTicketModule.vue *)

InitialState(list) ==
  [currentState |-> "collapsed",
   seatSelections |-> WatchSeats(<< >>, list),
   includeSpecialMessage |-> FALSE,
   specialMessage |-> "",
   shippingOption |-> "address-on-file",
   customAddress |-> EmptyAddress,
   isLoading |-> FALSE,
   error |-> Null]

NoEvents == [remove |-> 0, addToOrder |-> 0]

InitWidget ==
  /\ seats \in SeatLists
  /\ addressOnFile \in {<< >>, <<OnFile>>}
  /\ state = InitialState(seats)
  /\ fieldState = UntouchedFields
  /\ pending = << >>
  /\ emitted = NoEvents
  /\ lastResult = << >>
  /\ contributions = << >>
  /\ submits = 0
  /\ edits = 0
  /\ pre = << >>
  /\ lastOp = "mount"

otherVars == <<pin, pout, sreq, sres, vin, vout, nin, nout, win, wout, autocompleteVars>>

\* bookkeeping shared by every operation of the widget: which one ran
Ran(op) ==
  /\ lastOp' = op
  /\ UNCHANGED otherVars

\* an operation that emits no 'add-to-order' event
Quiet(op) ==
  /\ Ran(op)
  /\ lastResult' = << >>

\* an operation other than submit / its completion / edit ends the round trip
Other ==
  /\ Quiet("other")
  /\ pre' = << >>

\* remove ends the round trip too
Removed ==
  /\ Quiet("remove")
  /\ pre' = << >>

\* the host page passes a new seat list; the watcher on props.seats runs
SeatsChanged ==
  /\ \E list \in SeatLists \ {seats} :
       /\ seats' = list
       /\ state' = [state EXCEPT !.seatSelections = WatchSeats(@, list)]
  /\ Other
  /\ UNCHANGED <<addressOnFile, fieldState, pending, emitted,
                 contributions, submits, edits>>

\* the chevron, were collapsing to clear the special message
handleToggle_ClearsMessage ==
  /\ state' = IF state.currentState = "collapsed"
              THEN [state EXCEPT !.currentState = "expanded_step1"]
              ELSE IF state.currentState \in {"expanded_step1", "expanded_step2"}
              THEN [state EXCEPT !.currentState = "collapsed", !.specialMessage = ""]
              ELSE state
  /\ Other
  /\ UNCHANGED <<seats, addressOnFile, fieldState, pending, emitted,
                 contributions, submits, edits>>

\* the chevron, were it to collapse the success view as well
handleToggle_CollapsesSuccess ==
  /\ state' = IF state.currentState = "collapsed"
              THEN [state EXCEPT !.currentState = "expanded_step1"]
              ELSE [state EXCEPT !.currentState = "collapsed"]
  /\ Other
  /\ UNCHANGED <<seats, addressOnFile, fieldState, pending, emitted,
                 contributions, submits, edits>>

\* the chevron (and, when collapsed, the header) is rendered in every view
handleToggle ==
  /\ state' = IF state.currentState = "collapsed"
              THEN [state EXCEPT !.currentState = "expanded_step1"]
              ELSE IF state.currentState \in {"expanded_step1", "expanded_step2"}
              THEN [state EXCEPT !.currentState = "collapsed"]
              ELSE state
  /\ Other
  /\ UNCHANGED <<seats, addressOnFile, fieldState, pending, emitted,
                 contributions, submits, edits>>

\* "Add commemorative tickets", rendered in the collapsed view
handleExpand ==
  /\ state.currentState = "collapsed"
  /\ state' = [state EXCEPT !.currentState = "expanded_step1"]
  /\ Other
  /\ UNCHANGED <<seats, addressOnFile, fieldState, pending, emitted,
                 contributions, submits, edits>>

\* a select that applies the design to every seat
selectDesign_AllSeats(seat, designId) ==
  /\ state.currentState = "expanded_step1"
  /\ edits < MaxEdits
  /\ state' = [state EXCEPT !.seatSelections =
                 [k \in (DOMAIN @) \cup {Key(seat)} |-> designId]]
  /\ edits' = edits + 1
  /\ Other
  /\ UNCHANGED <<seats, addressOnFile, fieldState, pending, emitted,
                 contributions, submits>>

\* the per-seat <select v-model="state.seatSelections[key]"> of step 1
selectDesign(seat, designId) ==
  /\ state.currentState = "expanded_step1"
  /\ edits < MaxEdits
  /\ state' = [state EXCEPT !.seatSelections =
                 [k \in (DOMAIN @) \cup {Key(seat)} |-> IF k = Key(seat) THEN designId ELSE @[k]]]
  /\ edits' = edits + 1
  /\ Other
  /\ UNCHANGED <<seats, addressOnFile, fieldState, pending, emitted,
                 contributions, submits>>

\* the checkbox v-model="state.includeSpecialMessage" of step 1
toggleSpecialMessage ==
  /\ state.currentState = "expanded_step1"
  /\ edits < MaxEdits
  /\ state' = [state EXCEPT !.includeSpecialMessage = ~@]
  /\ edits' = edits + 1
  /\ Other
  /\ UNCHANGED <<seats, addressOnFile, fieldState, pending, emitted,
                 contributions, submits>>

\* maxlength="80" of the message input
MESSAGE_MAXLENGTH == 80

\* an input without maxlength keeps everything that is typed
maxlength_Unlimited(typed) == typed

\* what an input with maxlength holds after the user typed or pasted `typed`
maxlength(typed) == Substring0(typed, MESSAGE_MAXLENGTH)

\* the input v-model="state.specialMessage", rendered while the checkbox is ticked
setSpecialMessage(message) ==
  /\ state.currentState = "expanded_step1"
  /\ state.includeSpecialMessage
  /\ edits < MaxEdits
  /\ state' = [state EXCEPT !.specialMessage = maxlength(message)]
  /\ edits' = edits + 1
  /\ Other
  /\ UNCHANGED <<seats, addressOnFile, fieldState, pending, emitted,
                 contributions, submits>>

\* a "Continue to shipping" button that is never disabled
CanClickContinue_NeverDisabled == state.currentState = "expanded_step1"

\* "Continue to shipping" carries :disabled="!canContinue"
CanClickContinue == state.currentState = "expanded_step1" /\ canContinue

handleContinueToShipping ==
  /\ CanClickContinue
  /\ state' = [state EXCEPT !.currentState = "expanded_step2"]
  /\ Other
  /\ UNCHANGED <<seats, addressOnFile, fieldState, pending, emitted,
                 contributions, submits, edits>>

\* Back, were it to fall back to the address on file
handleBackToStep1_ResetsShipping ==
  /\ state.currentState = "expanded_step2"
  /\ state' = [state EXCEPT !.currentState = "expanded_step1",
                            !.shippingOption = "address-on-file"]
  /\ Other
  /\ UNCHANGED <<seats, addressOnFile, fieldState, pending, emitted,
                 contributions, submits, edits>>

\* "Back", rendered in step 2
handleBackToStep1 ==
  /\ state.currentState = "expanded_step2"
  /\ state' = [state EXCEPT !.currentState = "expanded_step1"]
  /\ Other
  /\ UNCHANGED <<seats, addressOnFile, fieldState, pending, emitted,
                 contributions, submits, edits>>

\* the radio buttons v-model="state.shippingOption" of step 2
setShippingOption(option) ==
  /\ state.currentState = "expanded_step2"
  /\ edits < MaxEdits
  /\ state' = [state EXCEPT !.shippingOption = option]
  /\ edits' = edits + 1
  /\ Other
  /\ UNCHANGED <<seats, addressOnFile, fieldState, pending, emitted,
                 contributions, submits>>

\* the inputs of the address form, rendered while "different address" is chosen
setCustomAddress(field, value) ==
  /\ state.currentState = "expanded_step2"
  /\ state.shippingOption = "different-address"
  /\ edits < MaxEdits
  /\ state' = [state EXCEPT !.customAddress[field] = value]
  /\ edits' = edits + 1
  /\ Other
  /\ UNCHANGED <<seats, addressOnFile, fieldState, pending, emitted,
                 contributions, submits>>

\* a shippingAddress that sends an empty street2 as ''
ShippingAddress_KeepsEmptyStreet2 ==
  IF state.shippingOption = "address-on-file" /\ Len(addressOnFile) > 0
  THEN addressOnFile[1]
  ELSE [name |-> state.customAddress.name,
        street1 |-> state.customAddress.street1,
        street2 |-> state.customAddress.street2,
        city |-> state.customAddress.city,
        state |-> state.customAddress.state,
        postalCode |-> state.customAddress.postalCode,
        country |-> "US"]

\* the shippingAddress handleAddToOrder sends
ShippingAddress ==
  IF state.shippingOption = "address-on-file" /\ Len(addressOnFile) > 0
  THEN addressOnFile[1]
  ELSE [name |-> state.customAddress.name,
        street1 |-> state.customAddress.street1,
        street2 |-> OrElse(state.customAddress.street2, Undefined),
        city |-> state.customAddress.city,
        state |-> state.customAddress.state,
        postalCode |-> state.customAddress.postalCode,
        country |-> "US"]

\* selections that carry every seat of the list, chosen or not
Selections_AllSeats ==
  [i \in 1..Len(seats) |->
     [seatId |-> seats[i].seatId,
      section |-> seats[i].section,
      row |-> seats[i].row,
      seatNumber |-> seats[i].seatNumber,
      designId |-> Lookup(state.seatSelections, Key(seats[i]))]]

\* the selections handleAddToOrder sends
Selections ==
  [i \in 1..Len(selectedSeats) |->
     [seatId |-> selectedSeats[i].seatId,
      section |-> selectedSeats[i].section,
      row |-> selectedSeats[i].row,
      seatNumber |-> selectedSeats[i].seatNumber,
      designId |-> Lookup(state.seatSelections, Key(selectedSeats[i]))]]

\* the JSON body of the fetch() call
RequestBody ==
  [sessionKey |-> SessionKey,
   selections |-> Selections,
   specialMessage |-> IF state.includeSpecialMessage THEN state.specialMessage ELSE Undefined,
   shippingAddress |-> <<ShippingAddress>>,
   totalPrice |-> totalPrice]

\* an "Add to order" button that stays enabled while loading
CanClickAddToOrder_WhileLoading == state.currentState = "expanded_step2"

\* "Add to order" is rendered in step 2 and carries :disabled="state.isLoading"
CanClickAddToOrder == state.currentState = "expanded_step2" /\ ~state.isLoading

\* handleAddToOrder up to its await fetch(...)
handleAddToOrder ==
  /\ CanClickAddToOrder
  /\ submits < MaxSubmits
  /\ state' = [state EXCEPT !.isLoading = TRUE, !.error = Null]
  /\ pending' = Append(pending, RequestBody)
  /\ submits' = submits + 1
  /\ pre' = <<state>>
  /\ Quiet("addToOrder")
  /\ UNCHANGED <<seats, addressOnFile, fieldState, emitted,
                 contributions, edits>>

\* How the fetch() of a request settles:
\*   "server"        the endpoint handled the request and its response arrived
\*   "lost-request"  fetch rejected, the endpoint never saw the request
\*   "lost-response" fetch rejected after the endpoint handled the request
\*   "garbled"       a response arrived whose body is not JSON (response.json() throws)
\*   "gateway"       a non-2xx JSON response without an error field, from in between
NetOutcomes == {"server", "lost-request", "lost-response", "garbled", "gateway"}

ServerRan(net) == net \in {"server", "lost-response"}

\* the message of the Error the try block of handleAddToOrder ends with, Null if none
FetchError(net, response) ==
  CASE net \in {"lost-request", "lost-response"} -> "Failed to fetch"
    [] net = "garbled" -> "Unexpected token < in JSON at position 0"
    [] net = "gateway" -> OrElse(Undefined, "Failed to add to order")
    [] OTHER -> IF response.status \notin 200..299 \/ ~response.success
                THEN OrElse(response.error, "Failed to add to order")
                ELSE Null

designName(designId) ==
  CASE designId = "design-a" -> "Design A"
    [] designId = "design-b" -> "Design B"
    [] designId = "design-c" -> "Design C"
    [] OTHER -> "Unknown"

\* the payload of emit('add-to-order', ...), read from the state at that moment
AddToOrderResult ==
  [success |-> TRUE,
   quantity |-> Len(selectedSeats),
   total |-> totalPrice,
   selections |-> [i \in 1..Len(selectedSeats) |->
                     [seat |-> selectedSeats[i],
                      designId |-> Lookup(state.seatSelections, Key(selectedSeats[i])),
                      designName |-> designName(Lookup(state.seatSelections, Key(selectedSeats[i])))]],
   specialMessage |-> IF state.includeSpecialMessage THEN state.specialMessage ELSE Undefined]

\* a failure that sends the user back to step 1
AfterFetch_BackToStep1(errorMessage) ==
  IF errorMessage = Null
  THEN [state EXCEPT !.currentState = "success", !.isLoading = FALSE]
  ELSE [state EXCEPT !.error = errorMessage, !.isLoading = FALSE,
                     !.currentState = "expanded_step1"]

\* the state handleAddToOrder leaves once its fetch has settled with errorMessage
AfterFetch(errorMessage) ==
  IF errorMessage = Null
  THEN [state EXCEPT !.currentState = "success", !.isLoading = FALSE]
  ELSE [state EXCEPT !.error = errorMessage, !.isLoading = FALSE]

\* a completion that notifies the host page on failure as well
fetchSettles_EmitsOnFailure ==
  /\ Len(pending) > 0
  /\ \E net \in NetOutcomes, backend \in BackendOutcomes :
       LET response == POST(Head(pending), backend)
           errorMessage == FetchError(net, response)
       IN /\ state' = AfterFetch(errorMessage)
          /\ contributions' =
               IF ServerRan(net) /\ response.status = 200
               THEN contributions \o [i \in 1..Len(response.calls) |-> response.calls[i].amount]
               ELSE contributions
          /\ IF errorMessage = Null
             THEN /\ emitted' = [emitted EXCEPT !.addToOrder = @ + 1]
                  /\ lastResult' = <<AddToOrderResult>>
                  /\ pre' = pre
                  /\ Ran("fetchSucceeded")
             ELSE /\ emitted' = [emitted EXCEPT !.addToOrder = @ + 1]
                  /\ pre' = << >>
                  /\ Quiet("fetchFailed")
  /\ pending' = Tail(pending)
  /\ UNCHANGED <<seats, addressOnFile, fieldState, submits, edits>>

\* handleAddToOrder from its await on: the fetch settles and the handler finishes
fetchSettles ==
  /\ Len(pending) > 0
  /\ \E net \in NetOutcomes, backend \in BackendOutcomes :
       LET response == POST(Head(pending), backend)
           errorMessage == FetchError(net, response)
       IN /\ state' = AfterFetch(errorMessage)
          /\ contributions' =
               IF ServerRan(net) /\ response.status = 200
               THEN contributions \o [i \in 1..Len(response.calls) |-> response.calls[i].amount]
               ELSE contributions
          /\ IF errorMessage = Null
             THEN /\ emitted' = [emitted EXCEPT !.addToOrder = @ + 1]
                  /\ lastResult' = <<AddToOrderResult>>
                  /\ pre' = pre
                  /\ Ran("fetchSucceeded")
             ELSE /\ emitted' = emitted
                  /\ pre' = << >>
                  /\ Quiet("fetchFailed")
  /\ pending' = Tail(pending)
  /\ UNCHANGED <<seats, addressOnFile, fieldState, submits, edits>>

\* an "Edit" that forgets the special message
handleEdit_DropsMessage ==
  /\ state.currentState = "success"
  /\ state' = [state EXCEPT !.currentState = "expanded_step1",
                            !.includeSpecialMessage = FALSE,
                            !.specialMessage = ""]
  /\ pre' = IF lastOp = "fetchSucceeded" THEN pre ELSE << >>
  /\ Quiet("edit")
  /\ UNCHANGED <<seats, addressOnFile, fieldState, pending, emitted,
                 contributions, submits, edits>>

\* "Edit", rendered in the success view
handleEdit ==
  /\ state.currentState = "success"
  /\ state' = [state EXCEPT !.currentState = "expanded_step1"]
  /\ pre' = IF lastOp = "fetchSucceeded" THEN pre ELSE << >>
  /\ Quiet("edit")
  /\ UNCHANGED <<seats, addressOnFile, fieldState, pending, emitted,
                 contributions, submits, edits>>

\* the loop of handleRemove over props.seats
ClearSeats(sel, list) ==
  LET keys == {Key(list[i]) : i \in 1..Len(list)}
  IN [k \in (DOMAIN sel) \cup keys |-> IF k \in keys THEN "" ELSE sel[k]]

\* "Remove", were it to leave the success view open
handleRemove_KeepsView ==
  /\ state.currentState = "success"
  /\ emitted' = [emitted EXCEPT !.remove = @ + 1]
  /\ state' = [state EXCEPT !.seatSelections = ClearSeats(@, seats),
                            !.includeSpecialMessage = FALSE,
                            !.specialMessage = "",
                            !.shippingOption = "address-on-file",
                            !.customAddress = EmptyAddress,
                            !.error = Null]
  /\ fieldState' = UntouchedFields
  /\ Removed
  /\ UNCHANGED <<seats, addressOnFile, pending,
                 contributions, submits, edits>>

\* "Remove", rendered in the success view
handleRemove ==
  /\ state.currentState = "success"
  /\ emitted' = [emitted EXCEPT !.remove = @ + 1]
  /\ state' = [state EXCEPT !.seatSelections = ClearSeats(@, seats),
                            !.includeSpecialMessage = FALSE,
                            !.specialMessage = "",
                            !.shippingOption = "address-on-file",
                            !.customAddress = EmptyAddress,
                            !.error = Null,
                            !.currentState = "collapsed"]
  /\ fieldState' = UntouchedFields
  /\ Removed
  /\ UNCHANGED <<seats, addressOnFile, pending,
                 contributions, submits, edits>>

WidgetNext ==
  \/ SeatsChanged
  \/ handleToggle
  \/ handleExpand
  \/ \E i \in 1..Len(seats), d \in DesignIds \cup {""} : selectDesign(seats[i], d)
  \/ toggleSpecialMessage
  \/ \E m \in Messages : setSpecialMessage(m)
  \/ handleContinueToShipping
  \/ handleBackToStep1
  \/ \E o \in {"address-on-file", "different-address"} : setShippingOption(o)
  \/ \E f \in AddressFields : \E v \in FieldInput(f) : setCustomAddress(f, v)
  \/ handleAddToOrder
  \/ fetchSettles
  \/ handleEdit
  \/ handleRemove

PricingIdle == pin = << >> /\ pout = << >>
ServerIdle == sreq = << >> /\ sres = << >>
ValidationIdle == vin = << >> /\ vout = << >>
NotesIdle == nin = << >> /\ nout = << >>
WWLIdle == win = << >> /\ wout = << >>

\* the custom address form, and with it the autocomplete, is not in use
AutocompleteIdle ==
  /\ addressAutocomplete = FALSE
  /\ autocompleteSuggestions = << >>
  /\ showAutocomplete = FALSE
  /\ autocompleteTimeout = << >>
  /\ lookups = {}

Init == InitWidget /\ PricingIdle /\ ServerIdle /\ ValidationIdle /\ NotesIdle /\ WWLIdle /\ AutocompleteIdle

Next == WidgetNext

Spec == Init /\ [][Next]_vars

\* every fetch that was started settles
FairSpec == Spec /\ WF_vars(fetchSettles)

-----------------------------------------------------------------------------
(* The pricing functions on their own *)

MaxQuantity == 4

\* no widget is mounted
WidgetIdle ==
  /\ seats = << >>
  /\ addressOnFile = << >>
  /\ state = InitialState(<< >>)
  /\ fieldState = UntouchedFields
  /\ pending = << >>
  /\ emitted = NoEvents
  /\ lastResult = << >>
  /\ contributions = << >>
  /\ submits = 0
  /\ edits = 0
  /\ pre = << >>
  /\ lastOp = "mount"

InitPricing ==
  /\ WidgetIdle
  /\ ServerIdle
  /\ ValidationIdle
  /\ NotesIdle
  /\ WWLIdle
  /\ AutocompleteIdle
  /\ pin \in [clientTotal : -1..((MaxQuantity + 1) * TICKET_PRICE), quantity : 0..MaxQuantity]
  /\ pout = << >>

\* the server reconciles the client's total
VerifyPrice ==
  /\ pout = << >>
  /\ pout' = <<verifyPrice(pin.clientTotal, pin.quantity)>>
  /\ UNCHANGED <<pin, sreq, sres, vin, vout, nin, nout, win, wout, autocompleteVars, widgetVars>>

SpecPricing == InitPricing /\ [][VerifyPrice]_vars

-----------------------------------------------------------------------------
(* The submission endpoint on its own: two requests that differ at most in
   totalPrice, handled against the same behaviour of the ticketing backend *)

Ten == "0123456789"
Message80 == Ten \o Ten \o Ten \o Ten \o Ten \o Ten \o Ten \o Ten
Message81 == Message80 \o "!"

SelectionA == [seatId |-> 100001, section |-> "Orchestra", row |-> "B",
               seatNumber |-> "13", designId |-> "design-a"]
SelectionB == [seatId |-> 100002, section |-> "Orchestra", row |-> "B",
               seatNumber |-> "14", designId |-> "design-b"]

\* the selections arrays a client may send
RequestSelections ==
  { << >>, <<SelectionA>>, <<SelectionA, SelectionB>>,
    <<[SelectionA EXCEPT !.designId = ""], SelectionB>> }

\* the shippingAddress a client may send (<<>>: none)
RequestAddresses ==
  { << >>, <<OnFile>>, <<[OnFile EXCEPT !.city = "", !.street2 = Undefined]>> }

RequestBodies ==
  [sessionKey : {"", SessionKey},
   selections : RequestSelections,
   specialMessage : {Undefined, "Happy Birthday!", Message80, Message81},
   shippingAddress : RequestAddresses,
   totalPrice : {0, 20, 40}]

InitServer ==
  /\ WidgetIdle
  /\ PricingIdle
  /\ ValidationIdle
  /\ NotesIdle
  /\ WWLIdle
  /\ AutocompleteIdle
  /\ \E body \in RequestBodies, t \in {0, 20, 40, 999} :
       sreq = <<body, [body EXCEPT !.totalPrice = t]>>
  /\ sres = << >>

\* both requests are handled
HandlePosts ==
  /\ sres = << >>
  /\ \E backend \in BackendOutcomes :
       sres' = <<POST(sreq[1], backend), POST(sreq[2], backend)>>
  /\ UNCHANGED <<sreq, pin, pout, vin, vout, nin, nout, win, wout, autocompleteVars, widgetVars>>

SpecServer == InitServer /\ [][HandlePosts]_vars

-----------------------------------------------------------------------------
(* Request validation on its own: lib/api/validation.ts.  The body is parsed
   JSON: a property may be missing (Undefined), selections may be missing
   (<<>>) or an array (<<array>>), and an element of the array is an object
   (<<object>>) or null (<<>>). *)

validateAddress(address) ==
  (IF Falsy(address.name) THEN <<"Shipping name is required">> ELSE << >>)
  \o (IF Falsy(address.street1) THEN <<"Shipping address line 1 is required">> ELSE << >>)
  \o (IF Falsy(address.city) THEN <<"Shipping city is required">> ELSE << >>)
  \o (IF Falsy(address.state) THEN <<"Shipping state is required">> ELSE << >>)
  \o (IF Falsy(address.postalCode) THEN <<"Shipping postal code is required">> ELSE << >>)

\* body.selections as an array; a missing property gives the empty array
SelectionsArray(body) == IF body.selections = << >> THEN << >> ELSE body.selections[1]

\* reading selection.designId of a null element throws a TypeError
validateAddToOrderRequest(body) ==
  LET array == SelectionsArray(body)
      objects == [i \in 1..Len(array) |-> array[i][1]]
  IN IF \E i \in 1..Len(array) : array[i] = << >>
     THEN [threw |-> TRUE, errors |-> << >>]
     ELSE [threw |-> FALSE,
           errors |->
             (IF Falsy(body.sessionKey) THEN <<"sessionKey is required">> ELSE << >>)
             \o (IF Len(array) = 0 THEN <<"At least one selection is required">> ELSE << >>)
             \o SelectionErrors(objects, 1)
             \o (IF Len(body.shippingAddress) = 0
                 THEN <<"shippingAddress is required">>
                 ELSE validateAddress(body.shippingAddress[1]))
             \o (IF ~Falsy(body.specialMessage) /\ Len(body.specialMessage) > 80
                 THEN <<"specialMessage must be 80 characters or less">>
                 ELSE << >>)]

\* the selection objects a client may send
SelectionObjects ==
  [seatId : {100002}, section : {"Orchestra"},
   designId : {Undefined, "", "design-b"},
   row : {Undefined, "B"},
   seatNumber : {"", "14"}]

\* the values of body.selections
ValidationSelections ==
  { << >>, << << >> >>, << << << >> >> >>, << << <<SelectionA>>, << >> >> >> }
  \cup { << << <<o>> >> >> : o \in SelectionObjects }
  \cup { << << <<SelectionA>>, <<o>> >> >> : o \in SelectionObjects }

ValidationBodies ==
  [sessionKey : {Undefined, "", SessionKey},
   selections : ValidationSelections,
   specialMessage : {Undefined, "", Message80, Message81},
   shippingAddress : { << >>, <<OnFile>>, <<[OnFile EXCEPT !.city = ""]>>,
                       <<[OnFile EXCEPT !.name = Undefined, !.postalCode = ""]>> },
   totalPrice : {20}]

InitValidation ==
  /\ WidgetIdle
  /\ PricingIdle
  /\ ServerIdle
  /\ NotesIdle
  /\ WWLIdle
  /\ AutocompleteIdle
  /\ \E body \in ValidationBodies : vin = <<body>>
  /\ vout = << >>

\* the request is validated
Validate ==
  /\ vout = << >>
  /\ vout' = <<validateAddToOrderRequest(vin[1])>>
  /\ UNCHANGED <<vin, pin, pout, sreq, sres, nin, nout, win, wout, autocompleteVars, widgetVars>>

SpecValidation == InitValidation /\ [][Validate]_vars

-----------------------------------------------------------------------------
(* The notes builder on its own *)

\* a street long enough for notes of more than 500 characters
LongStreet == Message80 \o Message80 \o Message80 \o Message80 \o Message80 \o Message80

NotesSelections ==
  { << >>, <<SelectionA>>, <<SelectionA, SelectionB>>,
    <<[SelectionA EXCEPT !.designId = "design-x"], [SelectionB EXCEPT !.designId = "design-c"]>> }

NotesInputs ==
  [selections : NotesSelections,
   shippingAddress : {OnFile, [OnFile EXCEPT !.street1 = LongStreet, !.street2 = Undefined]},
   specialMessage : {Undefined, "", "Happy Birthday!", Message80},
   maxLength : {0, 25, 100, NOTES_LIMIT}]

InitNotes ==
  /\ WidgetIdle
  /\ PricingIdle
  /\ ServerIdle
  /\ ValidationIdle
  /\ WWLIdle
  /\ AutocompleteIdle
  /\ \E input \in NotesInputs : nin = <<input>>
  /\ nout = << >>

\* the notes are built
BuildNotes ==
  /\ nout = << >>
  /\ nout' = <<buildContributionNotes(nin[1].selections, nin[1].shippingAddress,
                                      nin[1].specialMessage, nin[1].maxLength)>>
  /\ UNCHANGED <<nin, pin, pout, sreq, sres, vin, vout, win, wout, autocompleteVars, widgetVars>>

SpecNotes == InitNotes /\ [][BuildNotes]_vars

-----------------------------------------------------------------------------
(* The custom address form with its autocomplete: the widget is in step 2
   with "different address" chosen *)

RECURSIVE TrimStart(_)
TrimStart(str) ==
  IF Len(str) > 0 /\ SubSeq(str, 1, 1) = " " THEN TrimStart(SubSeq(str, 2, Len(str)))
  ELSE str

RECURSIVE TrimEnd(_)
TrimEnd(str) ==
  IF Len(str) > 0 /\ SubSeq(str, Len(str), Len(str)) = " "
  THEN TrimEnd(SubSeq(str, 1, Len(str) - 1))
  ELSE str

\* String.prototype.trim, for strings whose only white space is the blank
Trim(str) == TrimEnd(TrimStart(str))

Digits == {"0", "1", "2", "3", "4", "5", "6", "7", "8", "9"}

AllDigits(str) == \A i \in 1..Len(str) : SubSeq(str, i, i) \in Digits

\* ZIP_REGEX.test(val), were the pattern not anchored at its end
ZIP_REGEX_Unanchored(val) ==
  Len(val) >= 5 /\ AllDigits(SubSeq(val, 1, 5))

\* ZIP_REGEX.test(val), ZIP_REGEX = /^\d{5}(-\d{4})?$/
ZIP_REGEX(val) ==
  \/ Len(val) = 5 /\ AllDigits(val)
  \/ /\ Len(val) = 10
     /\ AllDigits(SubSeq(val, 1, 5))
     /\ SubSeq(val, 6, 6) = "-"
     /\ AllDigits(SubSeq(val, 7, 10))

Invalid(message) == [touched |-> TRUE, valid |-> FALSE, error |-> message]
Valid == [touched |-> TRUE, valid |-> TRUE, error |-> ""]

\* what validateField(field) makes of fieldState[field] when the field holds value
validateField(field, value) ==
  LET val == OrElse(Trim(value), "")
  IN IF field = "postalCode"
     THEN IF val = "" THEN Invalid("This field is needed for shipping")
          ELSE IF ~ZIP_REGEX(val)
          THEN Invalid("That doesn't look like a valid ZIP code - US ZIPs are 5 digits (or 5+4 like 10001-1234)")
          ELSE Valid
     ELSE IF field = "name" /\ Len(val) > 0 /\ Len(val) < 2
     THEN Invalid("Name should be at least 2 characters")
     ELSE IF field = "state"
     THEN IF val = "" THEN Invalid("Please select a state") ELSE Valid
     ELSE IF val = "" THEN Invalid("This field is needed for shipping") ELSE Valid

\* what the user may type into Address line 1
Queries == {"", "12", "123", "123 M"}

\* the suggestion the provider has for a query
Suggestion(query) ==
  [street1 |-> query \o " Main St", street2 |-> Undefined, city |-> "Chicago",
   state |-> "IL", postalCode |-> "60601"]

\* the arrays the provider may resolve a lookup with
ProviderResults(query) == { << >>, <<Suggestion(query)>> }

AddressFormShown ==
  state.currentState = "expanded_step2" /\ state.shippingOption = "different-address"

InitAutocomplete ==
  /\ PricingIdle
  /\ ServerIdle
  /\ ValidationIdle
  /\ NotesIdle
  /\ WWLIdle
  /\ seats = <<Seat13>>
  /\ addressOnFile = <<OnFile>>
  /\ state = [InitialState(seats) EXCEPT !.currentState = "expanded_step2",
                                        !.seatSelections[Key(Seat13)] = "design-a",
                                        !.shippingOption = "different-address"]
  /\ fieldState = UntouchedFields
  /\ pending = << >>
  /\ emitted = NoEvents
  /\ lastResult = << >>
  /\ contributions = << >>
  /\ submits = 0
  /\ edits = 2
  /\ pre = << >>
  /\ lastOp = "other"
  /\ addressAutocomplete \in BOOLEAN
  /\ autocompleteSuggestions = << >>
  /\ showAutocomplete = FALSE
  /\ autocompleteTimeout = << >>
  /\ lookups = {}

formFrame ==
  UNCHANGED <<seats, addressOnFile, pending, emitted, lastResult, contributions,
              submits, edits, pre, lastOp, pin, pout, sreq, sres, vin, vout, nin, nout, win, wout,
              addressAutocomplete>>

\* @input of Address line 1, were the provider not looked at
handleAddressInput_AlwaysLooksUp(value) ==
  /\ AddressFormShown
  /\ state' = [state EXCEPT !.customAddress.street1 = value]
  /\ IF Len(value) < 3
     THEN /\ autocompleteSuggestions' = << >>
          /\ showAutocomplete' = FALSE
          /\ UNCHANGED autocompleteTimeout
     ELSE /\ autocompleteTimeout' = <<value>>
          /\ UNCHANGED <<autocompleteSuggestions, showAutocomplete>>
  /\ UNCHANGED <<fieldState, lookups>>
  /\ formFrame

\* @input of Address line 1
handleAddressInput(value) ==
  /\ AddressFormShown
  /\ state' = [state EXCEPT !.customAddress.street1 = value]
  /\ IF ~addressAutocomplete \/ Len(value) < 3
     THEN /\ autocompleteSuggestions' = << >>
          /\ showAutocomplete' = FALSE
          /\ UNCHANGED autocompleteTimeout
     ELSE /\ autocompleteTimeout' = <<value>>
          /\ UNCHANGED <<autocompleteSuggestions, showAutocomplete>>
  /\ UNCHANGED <<fieldState, lookups>>
  /\ formFrame

\* the debounce timer fires, 300 ms after it was armed: the provider is called
timeoutFires ==
  /\ autocompleteTimeout # << >>
  /\ lookups' = lookups \cup {autocompleteTimeout[1]}
  /\ autocompleteTimeout' = << >>
  /\ UNCHANGED <<state, fieldState, autocompleteSuggestions, showAutocomplete>>
  /\ formFrame

\* a call of the provider resolves with results, or rejects
lookupSettles ==
  /\ \E query \in lookups :
       /\ lookups' = lookups \ {query}
       /\ \/ \E results \in ProviderResults(query) :
               /\ autocompleteSuggestions' = results
               /\ showAutocomplete' = (Len(results) > 0)
          \/ /\ autocompleteSuggestions' = << >>
             /\ showAutocomplete' = FALSE
  /\ UNCHANGED <<state, fieldState, autocompleteTimeout>>
  /\ formFrame

\* @mousedown on an item of the dropdown
selectAutocompleteResult ==
  /\ AddressFormShown
  /\ showAutocomplete
  /\ \E i \in 1..Len(autocompleteSuggestions) :
       LET result == autocompleteSuggestions[i]
       IN /\ state' = [state EXCEPT !.customAddress.street1 = result.street1,
                                    !.customAddress.street2 = OrElse(result.street2, ""),
                                    !.customAddress.city = result.city,
                                    !.customAddress.state = result.state,
                                    !.customAddress.postalCode = result.postalCode]
          /\ fieldState' = [f \in FieldNames |->
                              IF f \in {"street1", "city", "state", "postalCode"}
                              THEN validateField(f, state'.customAddress[f])
                              ELSE fieldState[f]]
  /\ showAutocomplete' = FALSE
  /\ autocompleteSuggestions' = << >>
  /\ UNCHANGED <<autocompleteTimeout, lookups>>
  /\ formFrame

\* @blur of Address line 1: the field is validated (the dropdown closes later)
blurStreet1 ==
  /\ AddressFormShown
  /\ fieldState' = [fieldState EXCEPT
                      !.street1 = validateField("street1", state.customAddress.street1)]
  /\ UNCHANGED <<state, autocompleteSuggestions, showAutocomplete,
                 autocompleteTimeout, lookups>>
  /\ formFrame

\* what the user may type into ZIP
PostalCodes == {"", "ABCDE", "1000", "60601", "10001-1234", " 60601 ", "606011234",
                "60601-12", "6060A", "    "}

\* @input of ZIP
inputPostalCode(value) ==
  /\ AddressFormShown
  /\ state' = [state EXCEPT !.customAddress.postalCode = value]
  /\ UNCHANGED <<fieldState, autocompleteSuggestions, showAutocomplete,
                 autocompleteTimeout, lookups>>
  /\ formFrame

\* @blur of ZIP
blurPostalCode ==
  /\ AddressFormShown
  /\ fieldState' = [fieldState EXCEPT
                      !.postalCode = validateField("postalCode", state.customAddress.postalCode)]
  /\ UNCHANGED <<state, autocompleteSuggestions, showAutocomplete,
                 autocompleteTimeout, lookups>>
  /\ formFrame

\* the timer armed by a blur fires 200 ms later and closes the dropdown
hideAutocomplete ==
  /\ fieldState.street1.touched
  /\ showAutocomplete
  /\ showAutocomplete' = FALSE
  /\ UNCHANGED <<state, fieldState, autocompleteSuggestions, autocompleteTimeout, lookups>>
  /\ formFrame

AutocompleteNext ==
  \/ \E value \in Queries : handleAddressInput(value)
  \/ timeoutFires
  \/ lookupSettles
  \/ selectAutocompleteResult
  \/ blurStreet1
  \/ \E value \in PostalCodes : inputPostalCode(value)
  \/ blurPostalCode
  \/ hideAutocomplete

SpecAutocomplete == InitAutocomplete /\ [][AutocompleteNext]_vars

-----------------------------------------------------------------------------
(* Properties *)

phase == state.currentState

PhaseEdges ==
  { <<"collapsed", "expanded_step1">>,
    <<"expanded_step1", "collapsed">>,
    <<"expanded_step1", "expanded_step2">>,
    <<"expanded_step2", "expanded_step1">>,
    <<"expanded_step2", "collapsed">>,
    <<"expanded_step2", "success">>,
    <<"success", "expanded_step1">>,
    <<"success", "collapsed">> }

\* C1: every step that changes the phase follows one of the documented edges;
\* in particular the phase becomes success only from step 2 (shipping).
C1_PhaseFollowsEdges ==
  [][phase' # phase => <<phase, phase'>> \in PhaseEdges]_vars

\* a step in which a fetch settles, i.e. a submission completes
Completes == Len(pending') < Len(pending)

\* a step in which a submission starts
Starts == Len(pending') > Len(pending)

\* C2: error is non-null only in step 2 (shipping); it is null right after a
\* submission starts and right after every step that leaves step 2.
C2_ErrorOnlyWhileShipping ==
  [][/\ state'.error # Null => phase' = "expanded_step2"
     /\ Starts => state'.error = Null
     /\ (phase = "expanded_step2" /\ phase' # "expanded_step2") => state'.error = Null]_vars

\* C3: when a submission completes, isLoading is false and the widget is either
\* in success without an error or in step 2 (shipping) with an error; and every
\* submission that was started completes.
C3_SubmitResolves ==
  /\ [][Completes =>
          /\ state'.isLoading = FALSE
          /\ \/ phase' = "success" /\ state'.error = Null
             \/ phase' = "expanded_step2" /\ state'.error # Null]_vars
  /\ (Len(pending) > 0 ~> Len(pending) = 0)

\* C4: at most one submission request is in flight at any time.
C4_AtMostOneInFlight == Len(pending) <= 1

\* a request is in flight while the "Add to order" button is on screen
C4_Witness == Len(pending) = 1 /\ phase = "expanded_step2" /\ state.isLoading

\* C5: verifyPrice returns total = quantity x the configured ticket price, which
\* is what calculateTotal returns, whatever the client's total is, and mismatch
\* is true exactly when the client's total differs from that total.
C5_VerifyPrice ==
  pout # << >> =>
    /\ pout[1].total = pin.quantity * TICKET_PRICE
    /\ pout[1].total = calculateTotal(pin.quantity)
    /\ pout[1].mismatch = (pin.clientTotal # pin.quantity * TICKET_PRICE)

\* a client total that disagrees with the server's has been reconciled
C5_Witness ==
  /\ pout # << >>
  /\ pin.quantity > 0
  /\ pin.clientTotal # pin.quantity * TICKET_PRICE
  /\ pout[1].mismatch

\* C6: two requests that differ only in totalPrice, handled against the same
\* backend behaviour, make the same addContribution calls, whose amount is
\* selections.length x the ticket price, and get the same status, success flag,
\* error and lineItem; a wrong totalPrice alone never causes a rejection.
C6_TotalPriceIgnored ==
  sres # << >> =>
    /\ sres[1].calls = sres[2].calls
    /\ \A i \in 1..Len(sres[1].calls) :
         sres[1].calls[i].amount = Len(sreq[1].selections) * TICKET_PRICE
    /\ sres[1].status = sres[2].status
    /\ sres[1].success = sres[2].success
    /\ sres[1].error = sres[2].error
    /\ sres[1].lineItem = sres[2].lineItem
    /\ \A i \in 1..Len(sres[2].lineItem) :
         sres[2].lineItem[i].total = Len(sreq[2].selections) * TICKET_PRICE

\* a request whose totalPrice is wrong, and differs from its twin's, succeeded
C6_Witness ==
  /\ sres # << >>
  /\ sreq[1].totalPrice # sreq[2].totalPrice
  /\ sreq[2].totalPrice # Len(sreq[2].selections) * TICKET_PRICE
  /\ sres[2].success
  /\ Len(sres[2].calls) = 1
  /\ Len(sreq[2].selections) = 2

\* C7: right after remove() every field of the state has its initial value
\* (every seat selection empty, no special message, address on file, empty
\* custom address, not loading, no error, collapsed) and the remove event has
\* been emitted.
C7_RemoveResetsEverything ==
  lastOp = "remove" =>
    /\ \A k \in DOMAIN state.seatSelections : state.seatSelections[k] = ""
    /\ state.includeSpecialMessage = FALSE
    /\ state.specialMessage = ""
    /\ state.shippingOption = "address-on-file"
    /\ state.customAddress = EmptyAddress
    /\ state.isLoading = FALSE
    /\ state.error = Null
    /\ state.currentState = "collapsed"
    /\ emitted.remove > 0

\* C8: right after a submission that succeeded and the edit() that follows it,
\* the state is the state just before that submission except that the phase is
\* step 1 (choosing designs) and error is null.
C8_EditRestoresPreSubmit ==
  (lastOp = "edit" /\ pre # << >>) =>
    /\ pre[1].isLoading = FALSE
    /\ state = [pre[1] EXCEPT !.currentState = "expanded_step1", !.error = Null]

\* edit() after a successful submission that carried a special message
C8_Witness ==
  /\ lastOp = "edit"
  /\ pre # << >>
  /\ pre[1].currentState = "expanded_step2"
  /\ state.specialMessage # ""
  /\ emitted.addToOrder > 0

\* C9: the widget goes from step 1 (choosing designs) to step 2 (shipping) only
\* from a state where canContinue holds, and in step 1 canContinue holds exactly
\* when some seat of the seat list has a non-empty design selection.
C9_ContinueOnlyWithSelection ==
  [][/\ (phase = "expanded_step1" /\ phase' = "expanded_step2") => canContinue
     /\ phase = "expanded_step1" =>
          (canContinue <=>
             \E i \in 1..Len(seats) :
                /\ Key(seats[i]) \in DOMAIN state.seatSelections
                /\ state.seatSelections[Key(seats[i])] # "")]_vars

\* step 2 entered from step 1, before any submission
C9_Witness ==
  /\ phase = "expanded_step2"
  /\ canContinue
  /\ submits = 0
  /\ Len(seats) = 2
  /\ Len(selectedSeats) = 1

\* what selectDesign(seat, designId) may change
SelectDesignFrame(seat, designId) ==
  /\ state'.seatSelections[Key(seat)] = designId
  /\ \A k \in DOMAIN state'.seatSelections :
       k # Key(seat) => (k \in DOMAIN state.seatSelections
                         /\ state'.seatSelections[k] = state.seatSelections[k])
  /\ [state' EXCEPT !.seatSelections = state.seatSelections] = state
  /\ seats' = seats
  /\ (\E j \in 1..Len(selectedSeats') : selectedSeats'[j] = seat) <=> designId # ""

\* C10: selectDesign(S, d) sets the entry of seat S to d and changes no other
\* seat's entry, no other field and not the phase; afterwards S is among
\* selectedSeats exactly when d is non-empty.
C10_SelectDesignFrame ==
  [][\A i \in 1..Len(seats) : \A d \in DesignIds \cup {""} :
       selectDesign(seats[i], d) => SelectDesignFrame(seats[i], d)]_vars

\* one seat's design was chosen and then cleared while the other keeps its own
C10_Witness ==
  /\ phase = "expanded_step1"
  /\ edits = 3
  /\ Len(seats) = 2
  /\ state.seatSelections[Key(Seat13)] = ""
  /\ state.seatSelections[Key(Seat14)] = "design-b"
  /\ ~state.includeSpecialMessage
  /\ state.shippingOption = "address-on-file"

\* the positions in the seat list whose entry in sel is a non-empty design
Picked(sel) ==
  {i \in 1..Len(seats) : Key(seats[i]) \in DOMAIN sel /\ sel[Key(seats[i])] # ""}

\* C11: in every state totalPrice is the number of selected seats times the
\* ticket price, and every request sent carries as totalPrice that product for
\* the selections in the same request.
C11_TotalPrice ==
  /\ totalPrice = Cardinality(Picked(state.seatSelections)) * TICKET_PRICE
  /\ \A i \in 1..Len(pending) :
       pending[i].totalPrice = Len(pending[i].selections) * TICKET_PRICE

\* a request for two tickets is in flight
C11_Witness ==
  /\ Len(pending) = 1
  /\ Len(pending[1].selections) = 2
  /\ pending[1].totalPrice = 2 * TICKET_PRICE
  /\ totalPrice = 2 * TICKET_PRICE

\* right after the click on "Add to order": pre[1] is the state at the click
\* and the last element of pending is the request that was sent
JustSubmitted == lastOp = "addToOrder" /\ pre # << >> /\ Len(pending) > 0

\* C12: the request's shippingAddress is the address on file, unchanged, when
\* shippingOption is address-on-file and there is an address on file; in every
\* other case it holds the customAddress fields, country "US", and no street2
\* when the street2 entered is empty.
C12_ShippingAddress ==
  JustSubmitted =>
    LET st == pre[1]
        sent == pending[Len(pending)].shippingAddress[1]
    IN IF st.shippingOption = "address-on-file" /\ addressOnFile # << >>
       THEN sent = addressOnFile[1]
       ELSE /\ sent.name = st.customAddress.name
            /\ sent.street1 = st.customAddress.street1
            /\ sent.city = st.customAddress.city
            /\ sent.state = st.customAddress.state
            /\ sent.postalCode = st.customAddress.postalCode
            /\ sent.country = "US"
            /\ sent.street2 = IF st.customAddress.street2 = "" THEN Undefined
                              ELSE st.customAddress.street2

\* address-on-file is chosen but the host passed no address: the (empty)
\* custom address is sent, without street2
C12_Witness ==
  /\ JustSubmitted
  /\ pre[1].shippingOption = "address-on-file"
  /\ addressOnFile = << >>
  /\ pending[Len(pending)].shippingAddress[1].country = "US"
  /\ pending[Len(pending)].shippingAddress[1].street2 = Undefined

\* C13: the request holds one selection for each seat of the list whose entry
\* is non-empty, in seat-list order, with that seat's section, row, seatNumber,
\* seatId and its designId, and none for another seat; its specialMessage is
\* the message when includeSpecialMessage is set and is absent otherwise.
C13_Selections ==
  JustSubmitted =>
    LET st == pre[1]
        req == pending[Len(pending)]
        picked == Picked(st.seatSelections)
    IN /\ Len(req.selections) = Cardinality(picked)
       /\ \A j \in 1..Len(req.selections) :
            \E i \in picked :
               /\ Cardinality({k \in picked : k < i}) = j - 1
               /\ req.selections[j] =
                    [seatId |-> seats[i].seatId, section |-> seats[i].section,
                     row |-> seats[i].row, seatNumber |-> seats[i].seatNumber,
                     designId |-> st.seatSelections[Key(seats[i])]]
       /\ req.specialMessage = IF st.includeSpecialMessage THEN st.specialMessage
                               ELSE Undefined

\* the second of two seats is the only one chosen, and a message goes with it
C13_Witness ==
  /\ JustSubmitted
  /\ Len(seats) = 2
  /\ Len(pending[Len(pending)].selections) = 1
  /\ pending[Len(pending)].selections[1].seatNumber = "14"
  /\ pending[Len(pending)].specialMessage = "Happy Birthday!"

\* C14: the add-to-order event is emitted once by every completion that ends
\* in success, with the phase already success, by no completion that ends in
\* failure, and by no other step.
C14_EmitOncePerSuccess ==
  [][/\ (Completes /\ lastOp' = "fetchSucceeded") =>
          /\ emitted'.addToOrder = emitted.addToOrder + 1
          /\ phase' = "success"
     /\ (Completes /\ lastOp' # "fetchSucceeded") =>
          /\ emitted'.addToOrder = emitted.addToOrder
          /\ state'.error # Null
     /\ ~Completes => emitted'.addToOrder = emitted.addToOrder]_vars

\* two submissions, the first failed and the second succeeded: one event
C14_Witness ==
  /\ lastOp = "fetchSucceeded"
  /\ submits = 2
  /\ emitted.addToOrder = 1
  /\ phase = "success"

\* the messages a failed submission can leave in error
FailureMessages ==
  { "Validation failed", "Failed to add contribution: 500",
    "Failed to add contribution", "Failed to add commemorative tickets",
    "Failed to add to order", "Failed to fetch",
    "Unexpected token < in JSON at position 0" }

\* C15: a completion that ends in failure (non-2xx response, success = false,
\* transport failure) leaves the phase where it is, so a widget in step 2
\* stays in step 2, sets error to a message, sets isLoading to false and
\* changes no other field of the state.
C15_FailureKeepsState ==
  [][(Completes /\ lastOp' = "fetchFailed") =>
       /\ phase' = phase
       /\ state'.error \in FailureMessages
       /\ state'.isLoading = FALSE
       /\ state' = [state EXCEPT !.error = state'.error, !.isLoading = FALSE]
       /\ seats' = seats]_vars

\* the endpoint rejected a request with an incomplete custom address
C15_Witness ==
  /\ lastOp = "fetchFailed"
  /\ phase = "expanded_step2"
  /\ state.error = "Validation failed"
  /\ ~state.isLoading
  /\ state.shippingOption = "different-address"
  /\ Len(selectedSeats) > 0

\* C16: handling an add-to-order request sends nothing to the fulfilment
\* partner: every call POST makes to an external service is addContribution on
\* the ticketing backend, and none is WWL's submitOrder.
C16_NoFulfilmentCall ==
  sres # << >> =>
    \A r \in 1..Len(sres) : \A i \in 1..Len(sres[r].calls) :
       /\ sres[r].calls[i].service = "tessitura"
       /\ sres[r].calls[i].method = "addContribution"
       /\ sres[r].calls[i].service # "wwl"

\* a request was accepted and its contribution added
C16_Witness ==
  /\ sres # << >>
  /\ sres[1].success
  /\ sres[1].status = 200
  /\ Len(sres[1].calls) = 1
  /\ sres[1].calls[1].service = "tessitura"

\* C17: a request for which validateRequest returns errors gets status 400,
\* success = false and that list as details, and no addContribution call is
\* made for it; addContribution is called at most once per request and only
\* when validateRequest returned no error.
C17_ValidationRejects ==
  sres # << >> =>
    \A r \in 1..Len(sres) :
       LET errors == validateRequest(sreq[r])
           made == SelectSeq(sres[r].calls, LAMBDA c : c.method = "addContribution")
       IN /\ errors # << >> =>
               /\ sres[r].status = 400
               /\ sres[r].success = FALSE
               /\ sres[r].details = errors
               /\ made = << >>
          /\ Len(made) <= 1
          /\ Len(made) = 1 => errors = << >>

\* a request with several defects was rejected before the backend was called
C17_Witness ==
  /\ sres # << >>
  /\ sres[1].status = 400
  /\ Len(sres[1].details) >= 3
  /\ sres[1].calls = << >>
  /\ sreq[1].sessionKey = ""

\* the condition under which a request is valid
ValidRequest(body) ==
  LET array == SelectionsArray(body)
  IN /\ ~Falsy(body.sessionKey)
     /\ Len(array) > 0
     /\ \A i \in 1..Len(array) :
          /\ array[i] # << >>
          /\ ~Falsy(array[i][1].designId)
          /\ ~Falsy(array[i][1].row)
          /\ ~Falsy(array[i][1].seatNumber)
     /\ body.shippingAddress # << >>
     /\ \A f \in {"name", "street1", "city", "state", "postalCode"} :
          ~Falsy(body.shippingAddress[1][f])
     /\ (body.specialMessage = Undefined \/ Len(body.specialMessage) <= 80)

Contains(errors, e) == \E i \in 1..Len(errors) : errors[i] = e

\* C18: validateAddToOrderRequest never throws; it returns the empty list
\* exactly for a valid request, and otherwise all applicable errors together,
\* those of the address among them (at least two for a request without a city
\* and with an 81-character message).
C18_ValidateNeverThrows ==
  vout # << >> =>
    LET body == vin[1]
        errors == vout[1].errors
    IN /\ ~vout[1].threw
       /\ (errors = << >>) <=> ValidRequest(body)
       /\ body.shippingAddress # << >> =>
            \A i \in 1..Len(validateAddress(body.shippingAddress[1])) :
               Contains(errors, validateAddress(body.shippingAddress[1])[i])
       /\ (/\ body.shippingAddress # << >>
           /\ body.shippingAddress[1].city = ""
           /\ body.specialMessage = Message81) => Len(errors) >= 2

HasPrefix(str, prefix) ==
  Len(str) >= Len(prefix) /\ SubSeq(str, 1, Len(prefix)) = prefix

\* the errors labelled with the 1-based position i
Labelled(errors, i) ==
  SelectSeq(errors, LAMBDA e : HasPrefix(e, "Selection " \o ToString(i) \o ": "))

MissingFields(selection) ==
  Cardinality({f \in {"designId", "row", "seatNumber"} : Falsy(selection[f])})

\* C19 as stated: for each selection the errors labelled with its 1-based
\* position are as many as its missing or empty fields among designId, row
\* and seatNumber (three when all three are missing).
C19_OneErrorPerField ==
  (vout # << >> /\ ~vout[1].threw) =>
    \A i \in 1..Len(SelectionsArray(vin[1])) :
       Len(Labelled(vout[1].errors, i)) = MissingFields(SelectionsArray(vin[1])[i][1])

\* C19, amended: for each selection the errors labelled with its 1-based
\* position are one when designId is missing or empty plus one when row or
\* seatNumber (or both) is missing or empty; a selection missing all three
\* fields yields two errors.
C19_ErrorsPerSelection ==
  (vout # << >> /\ ~vout[1].threw) =>
    \A i \in 1..Len(SelectionsArray(vin[1])) :
       LET selection == SelectionsArray(vin[1])[i][1]
           label == "Selection " \o ToString(i) \o ": "
           labelled == Labelled(vout[1].errors, i)
       IN /\ Len(labelled) = (IF Falsy(selection.designId) THEN 1 ELSE 0)
                             + (IF Falsy(selection.row) \/ Falsy(selection.seatNumber)
                                THEN 1 ELSE 0)
          /\ Falsy(selection.designId) <=>
               Contains(labelled, label \o "designId is required")
          /\ (Falsy(selection.row) \/ Falsy(selection.seatNumber)) <=>
               Contains(labelled, label \o "row and seatNumber are required")
          /\ MissingFields(selection) = 3 => Len(labelled) = 2

\* the second selection of a request lacks all three fields
C19_Witness ==
  /\ vout # << >>
  /\ ~vout[1].threw
  /\ Len(SelectionsArray(vin[1])) = 2
  /\ MissingFields(SelectionsArray(vin[1])[2][1]) = 3
  /\ Len(Labelled(vout[1].errors, 2)) = 2
  /\ Len(Labelled(vout[1].errors, 1)) = 0

\* C20: whenever a lookup puts suggestions on display, they are the ones for
\* the text Address line 1 holds at that moment, i.e. for the most recent
\* query; the response to a query that a newer keystroke has superseded is
\* never applied.
C20_SuggestionsAreCurrent ==
  [][(autocompleteSuggestions' # autocompleteSuggestions /\ autocompleteSuggestions' # << >>)
       => autocompleteSuggestions' = <<Suggestion(state'.customAddress.street1)>>]_vars

-----------------------------------------------------------------------------
(* C21: when the host page passes no addressAutocomplete provider, the
   suggestion list is empty and the dropdown hidden in every reachable state,
   no debounce timer is armed and no lookup is issued, and typing into Address
   line 1 still stores the typed value in customAddress.street1. *)
C21_NoProviderNoLookup ==
  [][ /\ ~addressAutocomplete =>
           /\ autocompleteSuggestions = << >> /\ autocompleteSuggestions' = << >>
           /\ ~showAutocomplete /\ ~showAutocomplete'
           /\ autocompleteTimeout = << >> /\ autocompleteTimeout' = << >>
           /\ lookups = {} /\ lookups' = {}
      /\ \A value \in Queries :
           (~addressAutocomplete /\ handleAddressInput(value))
             => state'.customAddress.street1 = value ]_vars

\* a query long enough for a lookup was typed, with no provider
C21_Witness ==
  /\ ~addressAutocomplete
  /\ AddressFormShown
  /\ state.customAddress.street1 = "123 M"
  /\ lookups = {}
  /\ autocompleteTimeout = << >>

-----------------------------------------------------------------------------
\* what the host page and the backend hold, which no handler of the header touches
Surroundings == <<seats, addressOnFile, fieldState, pending, emitted, contributions>>

(* C22: toggle() moves collapsed to choosingDesigns and choosingDesigns or
   shipping to collapsed, leaves the whole state unchanged when the phase is
   success, and never changes any field other than the phase. *)
C22_ToggleFrame ==
  [][ handleToggle =>
        /\ phase = "collapsed" => phase' = "expanded_step1"
        /\ phase \in {"expanded_step1", "expanded_step2"} => phase' = "collapsed"
        /\ phase = "success" => state' = state
        /\ [state' EXCEPT !.currentState = state.currentState] = state
        /\ Surroundings' = Surroundings ]_vars

\* the widget was collapsed from the shipping step with everything filled in
C22_Witness ==
  /\ phase = "collapsed"
  /\ lastOp = "other"
  /\ \E i \in 1..Len(seats) : IsSelected(state.seatSelections, seats[i])
  /\ state.includeSpecialMessage
  /\ state.shippingOption = "different-address"

-----------------------------------------------------------------------------
(* C23, as stated: from phase = success, toggle() moves the widget to
   collapsed and leaves the seat selections untouched. *)
C23_ToggleCollapsesSuccess ==
  [][ (handleToggle /\ phase = "success") =>
        /\ phase' = "collapsed"
        /\ state'.seatSelections = state.seatSelections ]_vars

(* C23, amended: from phase = success, toggle() leaves the phase success and
   the whole state, the seat selections included, unchanged. *)
C23_ToggleKeepsSuccess ==
  [][ (handleToggle /\ phase = "success") =>
        /\ phase' = "success"
        /\ state'.seatSelections = state.seatSelections
        /\ state' = state ]_vars

\* the success view after an operation that was neither the submission nor an edit
C23_Witness ==
  /\ phase = "success"
  /\ lastOp = "other"
  /\ Len(pending) = 0
  /\ emitted.addToOrder = 1

-----------------------------------------------------------------------------
(* The special message on its own: one seat, and a user who types or pastes
   messages of up to 91 characters *)

TypedMessages == {"", "Happy Birthday!", Message80, Message81, Message81 \o Ten}

InitMessage == Init /\ seats = <<Seat13>> /\ addressOnFile = <<OnFile>>

MessageNext ==
  \/ handleToggle
  \/ \E d \in DesignIds \cup {""} : selectDesign(Seat13, d)
  \/ toggleSpecialMessage
  \/ \E m \in TypedMessages : setSpecialMessage(m)
  \/ handleContinueToShipping
  \/ handleBackToStep1
  \/ handleAddToOrder
  \/ fetchSettles
  \/ handleEdit
  \/ handleRemove

SpecMessage == InitMessage /\ [][MessageNext]_vars

(* C24: the special message held by the widget is at most 80 characters long
   in every reachable state, whatever the user types, and no request that is
   sent carries a specialMessage longer than 80 characters. *)
C24_MessageAtMost80 ==
  /\ Len(state.specialMessage) <= 80
  /\ \A i \in 1..Len(pending) :
       \/ pending[i].specialMessage = Undefined
       \/ Len(pending[i].specialMessage) <= 80

\* a request is in flight that carries what is left of a message of 81 characters or more
C24_Witness ==
  /\ Len(pending) = 1
  /\ pending[1].specialMessage = Message80
  /\ state.specialMessage = Message80

-----------------------------------------------------------------------------
(* C25: backToDesigns() moves the widget from shipping to choosingDesigns and
   leaves seatSelections, includeMessage, message, shippingMode and
   customAddress unchanged. *)
C25_BackFrame ==
  [][ handleBackToStep1 =>
        /\ phase = "expanded_step2"
        /\ phase' = "expanded_step1"
        /\ state'.seatSelections = state.seatSelections
        /\ state'.includeSpecialMessage = state.includeSpecialMessage
        /\ state'.specialMessage = state.specialMessage
        /\ state'.shippingOption = state.shippingOption
        /\ state'.customAddress = state.customAddress ]_vars

\* back in step 1 before any submission, with the shipping choices of step 2 still held
C25_Witness ==
  /\ phase = "expanded_step1"
  /\ lastOp = "other"
  /\ submits = 0
  /\ state.shippingOption = "different-address"
  /\ state.customAddress # EmptyAddress
  /\ \E i \in 1..Len(seats) : IsSelected(state.seatSelections, seats[i])

-----------------------------------------------------------------------------
\* "Row {row} Seat {seatNumber}: {design name}" of one selection
SeatSummary(selection) ==
  "Row " \o selection.row \o " Seat " \o selection.seatNumber
  \o ": " \o formatDesignNameFromOptions(selection.designId)

\* the parts of the notes of an input, written out one after the other
WholeNotes(input) ==
  "Commemorative Ticket"
  \o (IF Len(input.selections) >= 1 THEN " | " \o SeatSummary(input.selections[1]) ELSE "")
  \o (IF Len(input.selections) >= 2 THEN "; " \o SeatSummary(input.selections[2]) ELSE "")
  \o (IF input.specialMessage \notin {Undefined, ""}
      THEN " | Message: \"" \o input.specialMessage \o "\""
      ELSE "")
  \o " | Ship to: " \o formatAddress(input.shippingAddress)

(* C26: buildContributionNotes returns the first maxLength characters of the
   ' | '-joined string made of the label, the '; '-joined per-seat summaries,
   the message part (only when specialMessage is non-empty) and the ship-to
   part, in that order: the result never exceeds maxLength and is exactly
   maxLength long when the untruncated string is longer; the endpoint builds
   the same parts and cuts them at 500. *)
C26_NotesTruncated ==
  nout # << >> =>
    LET input == nin[1]
        whole == WholeNotes(input)
        notes == nout[1]
    IN /\ Len(notes) <= input.maxLength
       /\ Len(whole) > input.maxLength => Len(notes) = input.maxLength
       /\ Len(whole) <= input.maxLength => notes = whole
       /\ notes = SubSeq(whole, 1, Len(notes))
       /\ Len(RouteNotes([selections |-> input.selections,
                          specialMessage |-> input.specialMessage,
                          shippingAddress |-> <<input.shippingAddress>>])) <= NOTES_LIMIT

\* notes of more than 500 characters, with two seats and a message, were cut at the default
C26_Witness ==
  /\ nout # << >>
  /\ nin[1].maxLength = NOTES_LIMIT
  /\ Len(nin[1].selections) = 2
  /\ nin[1].specialMessage = Message80
  /\ Len(WholeNotes(nin[1])) > NOTES_LIMIT
  /\ Len(nout[1]) = NOTES_LIMIT

-----------------------------------------------------------------------------
\* the inputs that are, blanks around them aside, 5 digits or 5 digits, a hyphen and 4 digits
WellFormedZips == {"60601", "10001-1234", " 60601 "}

\* the inputs that are empty once trimmed
BlankZips == {"", "    "}

(* C27: validateField('postalCode') marks the field touched; it sets valid =
   true with an empty error exactly when the trimmed value is 5 digits
   optionally followed by a hyphen and 4 digits; for an empty value it sets
   valid = false with the 'needed for shipping' message, and for every other
   value (ABCDE, 1000, ...) valid = false with the ZIP-format message. *)
C27_PostalCodeValidation ==
  [][ blurPostalCode =>
        LET value == state.customAddress.postalCode
            field == fieldState'.postalCode
        IN /\ value \in PostalCodes
           /\ field.touched
           /\ field.valid <=> value \in WellFormedZips
           /\ value \in WellFormedZips => field.error = ""
           /\ value \in BlankZips =>
                field.error = "This field is needed for shipping"
           /\ value \notin WellFormedZips \cup BlankZips =>
                field.error = "That doesn't look like a valid ZIP code - US ZIPs are 5 digits (or 5+4 like 10001-1234)" ]_vars

\* a nine-digit ZIP typed with its hyphen was validated
C27_Witness ==
  /\ state.customAddress.postalCode = "10001-1234"
  /\ fieldState.postalCode = Valid

-----------------------------------------------------------------------------
(* C28: the widget has no dead end: in the success view edit() can be taken
   and leads to choosingDesigns, remove() can be taken and leads to collapsed,
   and in every reachable state with no submission in flight the widget is
   collapsed or one operation (toggle from either step, remove from success)
   collapses it. *)
C28_NoDeadEnd ==
  Len(pending) = 0 =>
    /\ phase \in {"collapsed", "expanded_step1", "expanded_step2", "success"}
    /\ phase = "success" =>
         /\ ENABLED (handleEdit /\ state'.currentState = "expanded_step1")
         /\ ENABLED (handleRemove /\ state'.currentState = "collapsed")
    /\ phase \in {"expanded_step1", "expanded_step2"} =>
         ENABLED (handleToggle /\ state'.currentState = "collapsed")

\* the success view is reached a second time, after both submissions of the session
C28_Witness ==
  /\ phase = "success"
  /\ Len(pending) = 0
  /\ submits >= 2
  /\ emitted.addToOrder = 2

-----------------------------------------------------------------------------
(* C29: seatSelections has an entry for every seat of the current seat list;
   all entries are empty when the widget starts; when the host page passes
   another seat list, a seat that was not known gets an empty entry and the
   entry of every seat already known stays as it was. *)
C29_EntryForEverySeat ==
  /\ \A k \in DOMAIN state.seatSelections : state.seatSelections[k] = ""
  /\ [](\A i \in 1..Len(seats) : Key(seats[i]) \in DOMAIN state.seatSelections)
  /\ [][ seats' # seats =>
           /\ \A k \in DOMAIN state.seatSelections :
                /\ k \in DOMAIN state'.seatSelections
                /\ state'.seatSelections[k] = state.seatSelections[k]
           /\ \A k \in (DOMAIN state'.seatSelections) \ (DOMAIN state.seatSelections) :
                /\ state'.seatSelections[k] = ""
                /\ \E i \in 1..Len(seats') : Key(seats'[i]) = k ]_vars

\* the seat list changed after a design was picked for a seat it no longer holds
C29_Witness ==
  /\ seats = <<Seat13>>
  /\ DOMAIN state.seatSelections = {Key(Seat13), Key(Seat14)}
  /\ state.seatSelections[Key(Seat14)] = "design-b"

-----------------------------------------------------------------------------
(* C30: every execution of POST ends with a response whose success is a
   boolean; success is true, with a 2xx status, lineItem.quantity =
   selections.length and lineItem.total = quantity x unit price, only when
   addContribution reported success; success is false with status 500 when
   addContribution reported a failure or threw. *)
C30_AlwaysResponds ==
  sres # << >> =>
    \A r \in 1..Len(sres) :
      LET res == sres[r]
          body == sreq[r]
      IN /\ res.success \in BOOLEAN
         /\ res.status \in {200, 400, 500}
         /\ res.success <=> res.status = 200
         /\ res.success =>
              /\ res.reported = <<"ok">>
              /\ Len(res.lineItem) = 1
              /\ res.lineItem[1].quantity = Len(body.selections)
              /\ res.lineItem[1].total = res.lineItem[1].quantity * TICKET_PRICE
         /\ res.reported \in {<<"fail">>, <<"throw">>} =>
              /\ ~res.success
              /\ res.status = 500

\* a valid request of two seats met a backend that reported a failure without a message
C30_Witness ==
  /\ sres # << >>
  /\ Len(sreq[1].selections) = 2
  /\ sres[1].reported = <<"fail">>
  /\ sres[1].status = 500
  /\ sres[1].error = "Failed to add contribution"

-----------------------------------------------------------------------------
(* C31: whenever the phase is shipping, at least one seat of the seat list
   has a non-empty design selection, and every request a submission sends
   carries a non-empty selections array, also after success -> edit -> changed
   selections -> continue and after the seat list changes. *)
C31_ShippingHasSelection ==
  /\ phase = "expanded_step2" =>
       \E i \in 1..Len(seats) : IsSelected(state.seatSelections, seats[i])
  /\ \A i \in 1..Len(pending) : Len(pending[i].selections) > 0

-----------------------------------------------------------------------------
(* C32: for one session the ticketing backend never holds more than one
   contribution created by the widget, and holds none after remove(): neither
   success -> edit -> submit nor success -> remove -> new submission leaves
   behind a contribution of an earlier accepted submission. *)
C32_OneContributionPerSession ==
  /\ Len(contributions) <= 1
  /\ lastOp = "remove" => contributions = << >>

-----------------------------------------------------------------------------
(* C33: the result handed to the host page with 'add-to-order' describes the
   request the server accepted: its selections (seat and designId), quantity,
   total and specialMessage equal those of the request that was sent, even if
   selections, message or seat list changed while the request was in flight. *)
C33_ResultMatchesRequest ==
  [][ (Completes /\ lastResult' # << >>) =>
        LET request == Head(pending)
            result == lastResult'[1]
        IN /\ result.quantity = Len(request.selections)
           /\ result.total = request.totalPrice
           /\ result.specialMessage = request.specialMessage
           /\ Len(result.selections) = Len(request.selections)
           /\ \A i \in 1..Len(request.selections) :
                i <= Len(result.selections) =>
                  /\ result.selections[i].designId = request.selections[i].designId
                  /\ result.selections[i].seat.seatId = request.selections[i].seatId
                  /\ result.selections[i].seat.row = request.selections[i].row
                  /\ result.selections[i].seat.seatNumber = request.selections[i].seatNumber ]_vars

-----------------------------------------------------------------------------
(* C34: after an input of fewer than 3 characters into Address line 1 the
   suggestion list is empty and hidden and stays so until a later input of at
   least 3 characters: a timer armed, or a lookup started, by an earlier
   longer input does not repopulate or reopen it.  (Address line 1 holds fewer
   than 3 characters exactly when the last input was that short or none was
   made: a picked suggestion fills in a longer street.) *)
C34_ShortInputStaysEmpty ==
  Len(state.customAddress.street1) < 3 =>
    /\ autocompleteSuggestions = << >>
    /\ ~showAutocomplete

-----------------------------------------------------------------------------
(* The seat bookkeeping on its own: seat lists whose rows and seat numbers
   may contain the separator of the key *)

SeatA_2 == [section |-> "Balcony", row |-> "A", seatNumber |-> "2", seatId |-> 200001]
SeatA_12 == [section |-> "Balcony", row |-> "A", seatNumber |-> "1-2", seatId |-> 200002]
SeatA1_2 == [section |-> "Balcony", row |-> "A-1", seatNumber |-> "2", seatId |-> 200003]
SeatA1_12 == [section |-> "Balcony", row |-> "A-1", seatNumber |-> "1-2", seatId |-> 200004]

KeySeats == {SeatA_2, SeatA_12, SeatA1_2, SeatA1_12}

\* every list of two different seats
KeySeatLists == {list \in KeySeats \X KeySeats : list[1] # list[2]}

InitKeys ==
  /\ seats \in KeySeatLists
  /\ addressOnFile = <<OnFile>>
  /\ state = InitialState(seats)
  /\ fieldState = UntouchedFields
  /\ pending = << >>
  /\ emitted = NoEvents
  /\ lastResult = << >>
  /\ contributions = << >>
  /\ submits = 0
  /\ edits = 0
  /\ pre = << >>
  /\ lastOp = "mount"
  /\ PricingIdle /\ ServerIdle /\ ValidationIdle /\ NotesIdle /\ WWLIdle /\ AutocompleteIdle

KeysNext ==
  \/ handleToggle
  \/ \E i \in 1..Len(seats), d \in DesignIds \cup {""} : selectDesign(seats[i], d)

SpecKeys == InitKeys /\ [][KeysNext]_vars

\* two seats differ in row or seat number
OtherSeat(a, b) == <<a.row, a.seatNumber>> # <<b.row, b.seatNumber>>

(* C35: the bookkeeping key is injective on (row, seatNumber): two seats with
   different (row, seatNumber) never share the key row-seatNumber, so
   selectDesign on one seat never changes whether another seat is selected or
   which design is sent for it. *)
C35_KeyInjective ==
  [][ /\ \A i, j \in 1..Len(seats) :
           OtherSeat(seats[i], seats[j]) => Key(seats[i]) # Key(seats[j])
      /\ \A i \in 1..Len(seats), d \in DesignIds \cup {""} :
           selectDesign(seats[i], d) =>
             \A j \in 1..Len(seats) :
               OtherSeat(seats[i], seats[j]) =>
                 Lookup(state'.seatSelections, Key(seats[j]))
                   = Lookup(state.seatSelections, Key(seats[j])) ]_vars

-----------------------------------------------------------------------------
(* The reducer of the React component on its own: `state` is the reducer's
   state, `seats` the prop it was initialised from *)

\* createInitialState of the React component
createInitialState(list) ==
  [currentState |-> "collapsed",
   seatSelections |-> [k \in {list[i].row \o "-" \o list[i].seatNumber : i \in 1..Len(list)} |-> ""],
   includeSpecialMessage |-> FALSE,
   specialMessage |-> "",
   shippingOption |-> "address-on-file",
   customAddress |-> EmptyAddress,
   isLoading |-> FALSE,
   error |-> Null]

\* String.prototype.split for a separator of one character
RECURSIVE Split(_, _)
Split(str, sep) ==
  LET at == {i \in 1..Len(str) : SubSeq(str, i, i) = sep}
  IN IF at = {} THEN <<str>>
     ELSE LET first == CHOOSE i \in at : \A j \in at : i <= j
          IN <<SubSeq(str, 1, first - 1)>> \o Split(SubSeq(str, first + 1, Len(str)), sep)

\* const [row, seatNumber] = key.split('-'); a missing part prints as "undefined"
SeatOfKey(key) ==
  LET parts == Split(key, "-")
  IN [section |-> "", row |-> parts[1],
      seatNumber |-> IF Len(parts) >= 2 THEN parts[2] ELSE "undefined", price |-> 0]

\* the actions dispatched to the reducer
ReducerActions ==
  [type : {"EXPAND", "COLLAPSE", "GO_TO_STEP_2", "SET_SUCCESS", "RESET"}]
  \cup [type : {"SET_SEAT_DESIGN"}, seatKey : {Key(seats[i]) : i \in 1..Len(seats)},
        designId : DesignIds \cup {""}]

moduleReducer(current, action) ==
  CASE action.type = "EXPAND" -> [current EXCEPT !.currentState = "expanded_step1"]
    [] action.type = "COLLAPSE" -> [current EXCEPT !.currentState = "collapsed"]
    [] action.type = "GO_TO_STEP_2" -> [current EXCEPT !.currentState = "expanded_step2"]
    [] action.type = "SET_SEAT_DESIGN" ->
         [current EXCEPT !.seatSelections =
            [k \in (DOMAIN @) \cup {action.seatKey} |->
               IF k = action.seatKey THEN action.designId ELSE @[k]]]
    [] action.type = "SET_SUCCESS" ->
         [current EXCEPT !.currentState = "success", !.isLoading = FALSE, !.error = Null]
    [] action.type = "RESET" ->
         LET keys == DOMAIN current.seatSelections
             order == CHOOSE f \in [1..Cardinality(keys) -> keys] :
                        \A k \in keys : \E i \in 1..Cardinality(keys) : f[i] = k
         IN createInitialState([i \in 1..Cardinality(keys) |-> SeatOfKey(order[i])])
    [] OTHER -> current

InitReducer ==
  /\ seats \in KeySeatLists \cup SeatLists
  /\ addressOnFile = << >>
  /\ state = createInitialState(seats)
  /\ fieldState = UntouchedFields
  /\ pending = << >>
  /\ emitted = NoEvents
  /\ lastResult = << >>
  /\ contributions = << >>
  /\ submits = 0
  /\ edits = 0
  /\ pre = << >>
  /\ lastOp = "mount"
  /\ PricingIdle /\ ServerIdle /\ ValidationIdle /\ NotesIdle /\ WWLIdle /\ AutocompleteIdle

\* dispatch(action)
Dispatch ==
  /\ \E action \in ReducerActions :
       /\ state' = moduleReducer(state, action)
       /\ lastOp' = action.type
  /\ UNCHANGED <<seats, addressOnFile, fieldState, pending, emitted, lastResult,
                 contributions, submits, edits, pre, otherVars>>

SpecReducer == InitReducer /\ [][Dispatch]_vars

(* C36: in the React reducer RESET yields the initial state for the same
   seats: the key set of seatSelections after RESET equals the key set before
   it, with every value empty, because splitting each key at '-' and joining
   row and seatNumber again gives back the key. *)
C36_ResetKeepsKeys ==
  [][ lastOp' = "RESET" =>
        /\ \A k \in DOMAIN state.seatSelections :
             Key(SeatOfKey(k)) = k
        /\ DOMAIN state'.seatSelections = DOMAIN state.seatSelections
        /\ \A k \in DOMAIN state'.seatSelections : state'.seatSelections[k] = ""
        /\ state' = createInitialState(seats) ]_vars

-----------------------------------------------------------------------------
(* The fulfilment payload functions on their own: lib/wwl/wwlPayload.ts *)

WordCharacters == "abcdefghijklmnopqrstuvwxyzABCDEFGHIJKLMNOPQRSTUVWXYZ0123456789_"

\* the characters that /[^\w\s.,!?'-]/g leaves in place
AllowedCharacters ==
  {SubSeq(WordCharacters, i, i) : i \in 1..Len(WordCharacters)}
  \cup {" ", ".", ",", "!", "?", "'", "-"}

\* str.replace(/[^\w\s.,!?'-]/g, '')
RECURSIVE StripDisallowed(_)
StripDisallowed(str) ==
  IF Len(str) = 0 THEN ""
  ELSE (IF SubSeq(str, 1, 1) \in AllowedCharacters THEN SubSeq(str, 1, 1) ELSE "")
       \o StripDisallowed(SubSeq(str, 2, Len(str)))

formatSpecialMessage(message) ==
  LET trimmed == Trim(message)
      formatted == IF Len(trimmed) > 80 THEN Substring0(trimmed, 80) ELSE trimmed
  IN StripDisallowed(formatted)

wwlSku == "COMM-TICKET-2025"

wwlVariantMap ==
  [id \in {"design-a", "design-b", "design-c"} |->
     CASE id = "design-a" -> "SEASON-2025"
       [] id = "design-b" -> "CLASSIC"
       [] id = "design-c" -> "LIMITED-ED"]

mapDesignIdToWWLVariant(designId) ==
  OrElse(IF designId \in DOMAIN wwlVariantMap THEN wwlVariantMap[designId] ELSE Undefined,
         "UNKNOWN")

\* one element of items
WWLOrderItem(selection, specialMessage) ==
  [productId |-> wwlSku,
   section |-> selection.seat.section,
   row |-> selection.seat.row,
   seat |-> selection.seat.seatNumber,
   designVariant |-> mapDesignIdToWWLVariant(selection.designId),
   specialMessage1 |-> IF Falsy(specialMessage) THEN Undefined ELSE specialMessage]

\* buildWWLPayload without metadata.orderDate, which is the time of the call
buildWWLPayload(input) ==
  LET selectedItems == SelectSeq(input.selections, LAMBDA selection : selection.designId # Null)
  IN [orderId |-> input.tessituraOrderId,
      customer |-> [constituentId |-> input.customer.constituentId,
                    email |-> input.customer.email,
                    name |-> Trim(input.customer.firstName \o " " \o input.customer.lastName)],
      shipToAddress |-> input.shippingAddress,
      items |-> [i \in 1..Len(selectedItems) |->
                   WWLOrderItem(selectedItems[i], input.specialMessage)]]

\* a message of 82 characters whose 80th is a blank
BlankAt80 == SubSeq(Message80, 1, 79) \o " ab"

WWLMessages ==
  {"", "Happy Birthday!", "  Congrats, Sam - you're 30!?  ", "@ hello", "hello #",
   "a@b", "<3", Message81, BlankAt80}

WWLDesignIds == {Null, "", "design-a", "design-x"}

WWLSelections ==
  {<< >>}
  \cup {<<[seat |-> Seat13, designId |-> d]>> : d \in WWLDesignIds}
  \cup {<<[seat |-> Seat13, designId |-> d[1]], [seat |-> Seat14, designId |-> d[2]]>> :
          d \in WWLDesignIds \X WWLDesignIds}

WWLInputs ==
  [tessituraOrderId : {"ORD-1001"},
   customer : {[constituentId |-> 12345, email |-> "alex@example.com",
                firstName |-> "Alex", lastName |-> "Johnson"]},
   shippingAddress : {OnFile},
   selections : WWLSelections,
   specialMessage : WWLMessages]

InitWWL ==
  /\ WidgetIdle
  /\ PricingIdle
  /\ ServerIdle
  /\ ValidationIdle
  /\ NotesIdle
  /\ AutocompleteIdle
  /\ \E input \in WWLInputs : win = <<input>>
  /\ wout = [formatted |-> << >>, payload |-> << >>]

\* the message of the order is formatted
FormatMessage ==
  /\ wout.formatted = << >>
  /\ wout' = [wout EXCEPT !.formatted = <<formatSpecialMessage(win[1].specialMessage)>>]
  /\ UNCHANGED <<win, nin, nout, pin, pout, sreq, sres, vin, vout, autocompleteVars, widgetVars>>

\* the payload of the order is built
BuildPayload ==
  /\ wout.payload = << >>
  /\ wout' = [wout EXCEPT !.payload = <<buildWWLPayload(win[1])>>]
  /\ UNCHANGED <<win, nin, nout, pin, pout, sreq, sres, vin, vout, autocompleteVars, widgetVars>>

SpecWWL == InitWWL /\ [][FormatMessage \/ BuildPayload]_vars

\* str has no blank at either end
Trimmed(str) ==
  Len(str) > 0 => SubSeq(str, 1, 1) # " " /\ SubSeq(str, Len(str), Len(str)) # " "

(* C37: formatSpecialMessage is idempotent, and for every input its result
   has at most 80 characters, no leading or trailing whitespace, and only
   word characters, whitespace and the punctuation . , ! ? ' - *)
C37_FormatSpecialMessage ==
  wout.formatted # << >> =>
    LET formatted == wout.formatted[1]
    IN /\ formatSpecialMessage(formatted) = formatted
       /\ Len(formatted) <= 80
       /\ Trimmed(formatted)
       /\ \A i \in 1..Len(formatted) : SubSeq(formatted, i, i) \in AllowedCharacters

-----------------------------------------------------------------------------
(* C38: buildWWLPayload emits exactly one item for each selection whose
   design was actually selected, in selection order, and no item for a seat
   with no design (designId null, or the empty string the widget uses for
   'None'); no emitted item has designVariant 'UNKNOWN' when its designId is
   in the configured variant map. *)
C38_OneItemPerDesign ==
  wout.payload # << >> =>
    LET items == wout.payload[1].items
        chosen == SelectSeq(win[1].selections,
                            LAMBDA selection : selection.designId \notin {Null, ""})
    IN /\ Len(items) = Len(chosen)
       /\ \A i \in 1..Len(items) :
            i <= Len(chosen) =>
              /\ items[i].section = chosen[i].seat.section
              /\ items[i].row = chosen[i].seat.row
              /\ items[i].seat = chosen[i].seat.seatNumber
              /\ chosen[i].designId \in DOMAIN wwlVariantMap =>
                   /\ items[i].designVariant = wwlVariantMap[chosen[i].designId]
                   /\ items[i].designVariant # "UNKNOWN"

====
